---- MODULE Spec2Model ----
(***************************************************************************)
(* Voice Coach backend (src/app.py): the three provider call sites with    *)
(* their fallbacks, the feedback-report coercion, the FastAPI handlers and *)
(* the explicit CORS preflight handlers.                                   *)
(***************************************************************************)
EXTENDS Integers, Sequences, FiniteSets, TLC

(***************************************************************************)
(* Bounds of the model.                                                    *)
(***************************************************************************)
\* longest list value a provider payload field carries
MaxListLen == 1
\* how many fields of a provider payload deviate from the base payload
MaxDev == 1
\* longest string value inside a character-level provider document
MaxStrLen == 3
\* the api_analyze calls in flight at once
MaxRequests == 2

(***************************************************************************)
(* JSON / Python values.  Every value is a record of one shape:            *)
(*   k  the Python type ("null", "bool", "int", "float", "nonfinite",      *)
(*      "str", "list", "obj"), "absent" for a key a dict does not hold and *)
(*      "raise" for the exception a cast raised;                           *)
(*   n  int: the value; float: the value in halves (15 is 7.5); bool: 0/1; *)
(*      nonfinite: 0 NaN, 1 Infinity, -1 -Infinity; obj: number of keys;   *)
(*   s  str: the text;                                                     *)
(*   e  list: the elements.                                                *)
(* A list element is a record [k, t, t2, s, x]: k = "str" a string s,      *)
(* k = "int" a number, k = "entry" a {timestamp: t, line: s} object,       *)
(* k = "tip" a {original_timestamp: t, transcribed_timestamp: t2,          *)
(* suggestion: s} object, k = "obj" an object with none of these keys;     *)
(* x says the object carries a further, unknown key.                       *)
(***************************************************************************)
JV(k, n, s, e) == [k |-> k, n |-> n, s |-> s, e |-> e]
Absent == JV("absent", 0, "", <<>>)
Raised == JV("raise", 0, "", <<>>)
JNull == JV("null", 0, "", <<>>)
JBool(b) == JV("bool", IF b THEN 1 ELSE 0, "", <<>>)
JInt(i) == JV("int", i, "", <<>>)
JFloat(h) == JV("float", h, "", <<>>)
NaN == JV("nonfinite", 0, "", <<>>)
Infinity == JV("nonfinite", 1, "", <<>>)
JStr(s) == JV("str", 0, s, <<>>)
JList(e) == JV("list", 0, "", e)
JObj(nkeys) == JV("obj", nkeys, "", <<>>)

El(k, t, t2, s, x) == [k |-> k, t |-> t, t2 |-> t2, s |-> s, x |-> x]
Word(s) == El("str", "", "", s, FALSE)
NumEl == El("int", "", "", "", FALSE)
Entry(t, s) == El("entry", t, "", s, FALSE)
Tip(t, t2, s, x) == El("tip", t, t2, s, x)
OtherObj == El("obj", "", "", "", FALSE)

\* Python truthiness, as "x or default" evaluates it
Truthy(v) ==
    CASE v.k \in {"bool", "int", "float", "obj"} -> v.n # 0
      [] v.k = "nonfinite" -> TRUE
      [] v.k = "str" -> v.s # ""
      [] v.k = "list" -> v.e # <<>>
      [] OTHER -> FALSE

\* x or d
Or(x, d) == IF Truthy(x) THEN x ELSE d

\* d.get(key, default) on a dict d
Get(d, key, default) == IF d[key].k = "absent" THEN default ELSE d[key]

\* float(str): the strings Python reads as a number, the others raise ValueError
StrToFloat(s) ==
    CASE s = "5" -> JFloat(10)
      [] s = "7.5" -> JFloat(15)
      [] s = "nan" -> NaN
      [] OTHER -> Raised

\* int(str): only integer literals, the others raise ValueError
StrToInt(s) ==
    CASE s = "5" -> JInt(5)
      [] OTHER -> Raised

\* int(float) truncates toward zero
Trunc(h) == IF h >= 0 THEN h \div 2 ELSE -((-h) \div 2)

\* float(v)
PyFloat(v) ==
    CASE v.k \in {"int", "bool"} -> JFloat(2 * v.n)
      [] v.k \in {"float", "nonfinite"} -> v
      [] v.k = "str" -> StrToFloat(v.s)
      [] OTHER -> Raised

\* int(v)
PyInt(v) ==
    CASE v.k = "int" -> v
      [] v.k = "bool" -> JInt(v.n)
      [] v.k = "float" -> JInt(Trunc(v.n))
      [] v.k = "str" -> StrToInt(v.s)
      [] OTHER -> Raised

(***************************************************************************)
(* FeedbackReport                                                          *)
(***************************************************************************)
ScoreFields == {"score", "word_repetition_score", "speaking_pace_score",
                "filler_words_score", "voice_clarity_score"}
CountFields == {"word_repetition_count", "speaking_pace_count", "filler_words_count"}
ListFields == {"repetitive_words_list", "detailed_tips"}
TextFields == {"overall_feedback"}
FeedbackReport == ScoreFields \cup CountFields \cup ListFields \cup TextFields

\* the casts applied to whatever .get returned, without the "or default"
CoerceFieldNoOr(feedback_data, f) ==
    CASE f \in ScoreFields -> PyFloat(Get(feedback_data, f, JFloat(0)))
      [] f \in CountFields -> PyInt(Get(feedback_data, f, JInt(0)))
      [] f \in TextFields -> Get(feedback_data, f, JStr(""))
      [] OTHER -> LET v == Get(feedback_data, f, JNull)
                  IN IF v.k = "list" THEN v ELSE JList(<<>>)

\* the dict built at "coerced = {...}", with the two isinstance checks applied
CoerceField(feedback_data, f) ==
    CASE f \in ScoreFields -> PyFloat(Or(Get(feedback_data, f, JFloat(0)), JFloat(0)))
      [] f \in CountFields -> PyInt(Or(Get(feedback_data, f, JInt(0)), JInt(0)))
      [] f \in TextFields -> Or(Get(feedback_data, f, JStr("")), JStr(""))
      [] OTHER -> LET v == Or(Get(feedback_data, f, JNull), JList(<<>>))
                  IN IF v.k = "list" THEN v ELSE JList(<<>>)

coerced(feedback_data) == [f \in FeedbackReport |-> CoerceField(feedback_data, f)]

\* DetailedTip(**element): the three string fields; an unknown key is ignored
DetailedTip(el) == Tip(el.t, el.t2, el.s, FALSE)

\* pydantic accepts the value for field f of FeedbackReport
ValidField(f, v) ==
    CASE f \in ScoreFields -> v.k \in {"float", "nonfinite"}
      [] f \in CountFields -> v.k = "int"
      [] f \in TextFields -> v.k = "str"
      [] f = "repetitive_words_list" ->
            v.k = "list" /\ \A i \in 1..Len(v.e) : v.e[i].k = "str"
      [] OTHER -> v.k = "list" /\ \A i \in 1..Len(v.e) : v.e[i].k = "tip"

\* FeedbackReport(**c) once validation has passed
Validated(c) ==
    [f \in FeedbackReport |->
        IF f = "detailed_tips"
        THEN JList([i \in 1..Len(c[f].e) |-> DetailedTip(c[f].e[i])])
        ELSE c[f]]

\* the fallback report built after the except clauses
DefaultReport ==
    [f \in FeedbackReport |->
        CASE f \in ScoreFields -> JFloat(0)
          [] f \in CountFields -> JInt(0)
          [] f \in TextFields ->
                JStr("Could not generate valid feedback due to an API or parsing error.")
          [] OTHER -> JList(<<>>)]

(***************************************************************************)
(* A provider call ends in one of three ways: the call raises              *)
(* (kind = "raise"), its text does not parse as JSON after the fences are  *)
(* removed (kind = "garbage"), or it parses to the document doc            *)
(* (kind = "json").  A document is a JSON object (isobj) or any other JSON  *)
(* value v; of an object the model keeps the keys its reader looks up: the *)
(* FeedbackReport keys f for the feedback call, the value val under        *)
(* "script" or "transcription" (Absent without the key) for the others.    *)
(***************************************************************************)
NoFields == [f \in FeedbackReport |-> Absent]
Doc(isobj, f, val, v) == [isobj |-> isobj, f |-> f, val |-> val, v |-> v]
ObjDoc(f) == Doc(TRUE, f, Absent, JNull)
ValDoc(v) == Doc(FALSE, NoFields, Absent, v)
KeyDoc(isobj, val, v) == Doc(isobj, NoFields, val, v)
Outcome(kind, doc) == [kind |-> kind, doc |-> doc]

\* the try block of get_feedback_from_gemini and what follows it
FeedbackTry(outcome) ==
    IF outcome.kind # "json" THEN DefaultReport
    ELSE IF ~outcome.doc.isobj THEN DefaultReport
    ELSE LET c == coerced(outcome.doc.f)
         IN IF \E f \in FeedbackReport : c[f].k = "raise" THEN DefaultReport
            ELSE IF \E f \in FeedbackReport : ~ValidField(f, c[f]) THEN DefaultReport
            ELSE Validated(c)

\* feedback.model_dump_json() read back by json.loads
ModelDumpJson(report) ==
    [f \in FeedbackReport |-> IF report[f].k = "nonfinite" THEN JNull ELSE report[f]]

(***************************************************************************)
(* Scripts and transcriptions                                              *)
(***************************************************************************)
\* the fallback of transcribe_audio_bytes
DefaultTranscription ==
    KeyDoc(TRUE,
           JList(<<Entry("00:00-00:05", "Audio transcription failed."),
                   Entry("00:06-00:11",
                         "Please check the audio file format and your API setup.")>>),
           JNull)

\* the fallback script of generate_script_from_topic
DefaultScript ==
    JList(<<Entry("00:00-00:05", "API call failed. This is a default script."),
            Entry("00:06-00:12", "Please check your API key and network connection.")>>)

\* a title is the pieces of the formatted string
DefaultTitle == <<"Default Topic">>
PresentationOn(topic) == <<"Presentation on ", topic>>

\* a /generate_script body: the title and the value under "script"
ScriptBody(title, script) == [title |-> title, script |-> script]
NoBody == ScriptBody(<<>>, Absent)

\* the fallback titled after the request's topic, like the success path
generate_script_titled_fallback(topic, duration, outcome) ==
    IF outcome.kind = "json" /\ outcome.doc.isobj
    THEN ScriptBody(PresentationOn(topic), outcome.doc.val)
    ELSE ScriptBody(PresentationOn(topic), DefaultScript)

\* generate_script_from_topic: data['title'] = ... raises TypeError on
\* anything but a dict and the except clause answers the default script
generate_script_from_topic(topic, duration, outcome) ==
    IF outcome.kind = "json" /\ outcome.doc.isobj
    THEN ScriptBody(PresentationOn(topic), outcome.doc.val)
    ELSE ScriptBody(DefaultTitle, DefaultScript)

\* transcribe_audio_bytes: the parsed document, whatever its shape, or the
\* fallback when the call or the parse raised
transcribe_audio_bytes(mime_type, audio_bytes, outcome) ==
    IF outcome.kind = "json" THEN outcome.doc ELSE DefaultTranscription

\* transcription_data['transcription'] raises (KeyError on a dict without
\* the key, TypeError on any other value), before the try block
SubscriptRaises(transcription_data) ==
    ~transcription_data.isobj \/ transcription_data.val.k = "absent"

\* get_feedback_from_gemini: exc says an exception left the function
get_feedback_from_gemini(original_script, transcription_data, outcome) ==
    IF SubscriptRaises(transcription_data)
    THEN [exc |-> TRUE, report |-> NoFields]
    ELSE [exc |-> FALSE, report |-> FeedbackTry(outcome)]

\* the try/except at the head of api_analyze: parsed is the outcome of
\* json.loads(original_script_json)
ParseOriginalScript(parsed) ==
    IF parsed.kind # "json" THEN JList(<<>>)
    ELSE IF ~parsed.doc.isobj
         THEN IF parsed.doc.v.k = "list" THEN parsed.doc.v ELSE JList(<<>>)
         ELSE Get([script |-> parsed.doc.val], "script", JList(<<>>))

\* mimetypes.guess_type(filename)[0], "" for None
GuessType(filename) == IF filename = "speech.mp3" THEN "audio/mpeg" ELSE ""

\* audio.content_type or mimetypes.guess_type(audio.filename or "")[0] or "audio/webm"
MimeType(content_type, filename) ==
    IF content_type # "" THEN content_type
    ELSE IF GuessType(filename) # "" THEN GuessType(filename)
    ELSE "audio/webm"

(***************************************************************************)
(* CORS preflight handlers                                                 *)
(***************************************************************************)
ALLOWED_ORIGINS ==
    << "https://frontend-53528.web.app",
       "https://frontend-53528.firebaseapp.com",
       "https://backend-0d8r.onrender.com",
       "http://localhost:5173",
       "http://127.0.0.1:5173",
       "http://localhost:3000",
       "http://127.0.0.1:3000" >>

AllowedSet == {ALLOWED_ORIGINS[i] : i \in 1..Len(ALLOWED_ORIGINS)}

\* an Origin header: present or not, and its value
Header(present, value) == [present |-> present, value |-> value]

\* the caller's origin echoed without the allow-list test
AllowOriginEchoed(origin) ==
    IF origin.present /\ origin.value # ""
    THEN origin.value
    ELSE IF Len(ALLOWED_ORIGINS) > 0 THEN ALLOWED_ORIGINS[1] ELSE "*"

\* the allow_origin computed by options_generate_script and options_analyze
AllowOrigin(origin) ==
    IF origin.present /\ origin.value # "" /\ origin.value \in AllowedSet
    THEN origin.value
    ELSE IF Len(ALLOWED_ORIGINS) > 0 THEN ALLOWED_ORIGINS[1] ELSE "*"

(***************************************************************************)
(* The response normaliser, character by character.  A text is a sequence  *)
(* of one-character strings.  Over the alphabet of the model (backtick,    *)
(* the letters of "json", "a", the quote, brackets, braces, colon, comma,  *)
(* space and newline) the JSON values are the strings, the arrays and the  *)
(* objects, so json_loads below accepts exactly what json.loads accepts.   *)
(* A parsed value is a record [k, s, e]: k = "str" with its characters s,  *)
(* k = "list" with its elements e, k = "obj" with its members e, a member  *)
(* being [k |-> "pair", s |-> key, e |-> <<value>>].                       *)
(***************************************************************************)
CV(k, s, e) == [k |-> k, s |-> s, e |-> e]
CStr(s) == CV("str", s, <<>>)
CList(e) == CV("list", <<>>, e)
CObj(members) == CV("obj", <<>>, members)
CPair(key, v) == CV("pair", key, <<v>>)
NoValue == CV("none", <<>>, <<>>)

\* the backtick, written "^" here
Backtick == "^"
FenceJson == <<Backtick, Backtick, Backtick, "j", "s", "o", "n">>
Fence == <<Backtick, Backtick, Backtick>>
Quote == "\""

IsSpace(c) == c \in {" ", "\n"}

RECURSIVE LStrip(_)
LStrip(t) == IF t # <<>> /\ IsSpace(Head(t)) THEN LStrip(Tail(t)) ELSE t

RECURSIVE RStrip(_)
RStrip(t) ==
    IF t # <<>> /\ IsSpace(t[Len(t)]) THEN RStrip(SubSeq(t, 1, Len(t) - 1)) ELSE t

\* str.strip()
Strip(t) == RStrip(LStrip(t))

StartsWith(t, old) == Len(t) >= Len(old) /\ SubSeq(t, 1, Len(old)) = old

\* str.replace(old, ""): every occurrence, left to right, without overlap
RECURSIVE Replace(_, _)
Replace(t, old) ==
    IF t = <<>> THEN <<>>
    ELSE IF StartsWith(t, old) THEN Replace(SubSeq(t, Len(old) + 1, Len(t)), old)
    ELSE <<Head(t)>> \o Replace(Tail(t), old)

\* response.text.strip().replace(FenceJson, "").replace(Fence, "")
CleanResponse(text) == Replace(Replace(Strip(text), FenceJson), Fence)

Failed == [ok |-> FALSE, val |-> NoValue, next |-> 0]
Parsed(v, next) == [ok |-> TRUE, val |-> v, next |-> next]

RECURSIVE SkipSpace(_, _)
SkipSpace(t, i) == IF i <= Len(t) /\ IsSpace(t[i]) THEN SkipSpace(t, i + 1) ELSE i

\* the string whose opening quote is at i: up to the next quote, no control
\* character inside
ParseString(t, i) ==
    LET closing == {j \in (i + 1)..Len(t) : t[j] = Quote}
    IN IF closing = {} THEN Failed
       ELSE LET j == CHOOSE c \in closing : \A d \in closing : c <= d
            IN IF \E m \in (i + 1)..(j - 1) : t[m] = "\n" THEN Failed
               ELSE Parsed(CStr(SubSeq(t, i + 1, j - 1)), j + 1)

RECURSIVE ParseValue(_, _)
RECURSIVE ParseElements(_, _, _)
RECURSIVE ParseMembers(_, _, _)

\* the elements of an array from position i on, acc those read so far
ParseElements(t, i, acc) ==
    LET v == ParseValue(t, i)
        j == SkipSpace(t, v.next)
    IN IF ~v.ok \/ j > Len(t) THEN Failed
       ELSE IF t[j] = "," THEN ParseElements(t, SkipSpace(t, j + 1), Append(acc, v.val))
       ELSE IF t[j] = "]" THEN Parsed(CList(Append(acc, v.val)), j + 1)
       ELSE Failed

\* the members of an object from position i on, acc those read so far
ParseMembers(t, i, acc) ==
    IF i > Len(t) \/ t[i] # Quote THEN Failed
    ELSE LET key == ParseString(t, i)
             c == SkipSpace(t, key.next)
         IN IF ~key.ok \/ c > Len(t) \/ t[c] # ":" THEN Failed
            ELSE LET v == ParseValue(t, SkipSpace(t, c + 1))
                     j == SkipSpace(t, v.next)
                     members == Append(acc, CPair(key.val.s, v.val))
                 IN IF ~v.ok \/ j > Len(t) THEN Failed
                    ELSE IF t[j] = "," THEN ParseMembers(t, SkipSpace(t, j + 1), members)
                    ELSE IF t[j] = "}" THEN Parsed(CObj(members), j + 1)
                    ELSE Failed

ParseValue(t, i) ==
    IF i > Len(t) THEN Failed
    ELSE IF t[i] = Quote THEN ParseString(t, i)
    ELSE IF t[i] = "[" THEN
        LET j == SkipSpace(t, i + 1)
        IN IF j <= Len(t) /\ t[j] = "]" THEN Parsed(CList(<<>>), j + 1)
           ELSE ParseElements(t, j, <<>>)
    ELSE IF t[i] = "{" THEN
        LET j == SkipSpace(t, i + 1)
        IN IF j <= Len(t) /\ t[j] = "}" THEN Parsed(CObj(<<>>), j + 1)
           ELSE ParseMembers(t, j, <<>>)
    ELSE Failed

\* json.loads: one value, white space around it, nothing after it
json_loads(t) ==
    LET v == ParseValue(t, SkipSpace(t, 1))
    IN IF v.ok /\ SkipSpace(t, v.next) = Len(t) + 1 THEN v ELSE Failed

\* the try block of transcribe_audio_bytes on the provider's text: the
\* parsed value, or the fallback when json.loads raised
NormalizeOrFallback(text) ==
    LET r == json_loads(CleanResponse(text))
    IN [fallback |-> ~r.ok, val |-> r.val]

\* the text a provider writes for a value
RECURSIVE JsonDumps(_)
RECURSIVE DumpAll(_, _)
DumpAll(items, i) ==
    IF i > Len(items) THEN <<>>
    ELSE (IF i > 1 THEN <<",">> ELSE <<>>) \o JsonDumps(items[i]) \o DumpAll(items, i + 1)
JsonDumps(v) ==
    CASE v.k = "str" -> <<Quote>> \o v.s \o <<Quote>>
      [] v.k = "list" -> <<"[">> \o DumpAll(v.e, 1) \o <<"]">>
      [] v.k = "obj" -> <<"{">> \o DumpAll(v.e, 1) \o <<"}">>
      [] OTHER -> <<Quote>> \o v.s \o <<Quote, ":">> \o JsonDumps(v.e[1])

\* how a provider wraps its document
Wrap(w, t) ==
    CASE w = "fenced" -> FenceJson \o <<"\n">> \o t \o <<"\n">> \o Fence
      [] w = "fenced-tight" -> FenceJson \o t \o Fence
      [] w = "fenced-plain" -> Fence \o <<"\n">> \o t \o <<"\n">> \o Fence \o <<"\n">>
      [] OTHER -> t

Wrappers == {"fenced", "fenced-tight", "fenced-plain", "bare"}
StrChars == {Backtick, "a"}
Strings == UNION {[1..m -> StrChars] : m \in 0..MaxStrLen}
Documents ==
    {CStr(s) : s \in Strings}
    \cup {CList(<<CStr(s)>>) : s \in Strings}
    \cup {CObj(<<CPair(<<"a">>, CStr(s))>>) : s \in Strings}
    \cup {CList(<<>>), CObj(<<>>), CList(<<CStr(<<"a">>), CObj(<<>>)>>)}

\* texts json.loads rejects, with or without fences around them
Garbage ==
    {<<>>, <<"a">>, <<Backtick>>, <<Quote, "a">>, <<"[">>, <<"[", Quote, Quote, ",", "]">>,
     <<"{", Quote, "a", Quote, "}">>, <<Quote, "\n", Quote>>, <<"{", "}", "a">>,
     <<"j", "s", "o", "n">>}

(***************************************************************************)
(* Inputs: what a client may send and what the provider may answer         *)
(***************************************************************************)
GoodTip == Tip("00:00-00:05", "00:00-00:04", "Slow down.", FALSE)
GoodEntry == Entry("00:00-00:05", "Hello everyone.")
Elems == {Word("um"), GoodTip, Tip("00:06-00:12", "N/A", "Missed.", TRUE), OtherObj}

ListsUpTo(n) == UNION {[1..m -> Elems] : m \in 0..n}

\* the values one key of a provider payload may hold
FVals ==
    {Absent, JNull, JBool(TRUE), JBool(FALSE),
     JInt(0), JInt(7), JInt(-3), JInt(11),
     JFloat(0), JFloat(15), JFloat(-1), JFloat(21),
     NaN, Infinity,
     JStr(""), JStr("5"), JStr("7.5"), JStr("abc"), JStr("nan"),
     JObj(0), JObj(1)}
    \cup {JList(e) : e \in ListsUpTo(MaxListLen)}

\* the values the handlers' provider draws from
CoreVals ==
    {Absent, JNull, JInt(-3), JInt(11), JFloat(15), NaN, JStr("abc"),
     JList(<<Word("um")>>), JObj(1)}

\* a payload that follows the schema of the prompt
BasePayload ==
    [f \in FeedbackReport |->
        CASE f = "score" -> JFloat(15)
          [] f = "word_repetition_score" -> JFloat(16)
          [] f = "speaking_pace_score" -> JInt(6)
          [] f = "filler_words_score" -> JFloat(18)
          [] f = "voice_clarity_score" -> JFloat(20)
          [] f = "word_repetition_count" -> JInt(2)
          [] f = "speaking_pace_count" -> JInt(1)
          [] f = "filler_words_count" -> JInt(3)
          [] f = "overall_feedback" -> JStr("Good pace.")
          [] f = "repetitive_words_list" -> JList(<<Word("like")>>)
          [] OTHER -> JList(<<GoodTip>>)]

\* the payloads that differ from one of S in at most n keys
RECURSIVE Deviate(_, _, _)
Deviate(S, vals, n) ==
    IF n = 0 THEN S
    ELSE Deviate(S \cup {[p EXCEPT ![f] = v] : p \in S, f \in FeedbackReport, v \in vals},
                 vals, n - 1)

NoDoc == ValDoc(JNull)
NonObjects == {ValDoc(JNull), ValDoc(JList(<<>>)), ValDoc(JStr("ok")), ValDoc(JInt(7))}

\* every way the feedback call may end, for the coercion on its own
Payloads ==
    {Outcome("raise", NoDoc), Outcome("garbage", NoDoc)}
    \cup {Outcome("json", d) : d \in NonObjects}
    \cup {Outcome("json", ObjDoc(p)) : p \in Deviate({BasePayload, NoFields}, FVals, MaxDev)}

\* every way the feedback call may end, for the handlers
FeedbackOutcomes ==
    {Outcome("raise", NoDoc), Outcome("garbage", NoDoc)}
    \cup {Outcome("json", d) : d \in NonObjects}
    \cup {Outcome("json", ObjDoc(p)) :
            p \in {NoFields} \cup {[BasePayload EXCEPT ![f] = v] :
                                      f \in FeedbackReport, v \in CoreVals}}

NoKeyDoc == KeyDoc(FALSE, Absent, JNull)

\* json.loads(original_script_json): the text does not parse, or parses to
\* a list, a scalar, or an object with or without "script"
ScriptInputs ==
    {Outcome("garbage", NoKeyDoc),
     Outcome("json", KeyDoc(FALSE, Absent, JList(<<GoodEntry>>))),
     Outcome("json", KeyDoc(FALSE, Absent, JInt(5))),
     Outcome("json", KeyDoc(TRUE, JList(<<GoodEntry>>), JNull)),
     Outcome("json", KeyDoc(TRUE, Absent, JNull)),
     Outcome("json", KeyDoc(TRUE, JInt(5), JNull))}

\* every way the transcription call may end
TranscriptionOutcomes ==
    {Outcome("raise", NoKeyDoc),
     Outcome("garbage", NoKeyDoc),
     Outcome("json", KeyDoc(TRUE, JList(<<GoodEntry>>), JNull)),
     Outcome("json", KeyDoc(TRUE, JInt(5), JNull)),
     Outcome("json", KeyDoc(TRUE, Absent, JNull)),
     Outcome("json", KeyDoc(FALSE, Absent, JList(<<GoodEntry>>))),
     Outcome("json", KeyDoc(FALSE, Absent, JStr("hello"))),
     Outcome("json", KeyDoc(FALSE, Absent, JNull))}

\* every way the script-generation call may end
ScriptOutcomes ==
    {Outcome("raise", NoKeyDoc),
     Outcome("garbage", NoKeyDoc),
     Outcome("json", KeyDoc(TRUE, JList(<<GoodEntry>>), JNull)),
     Outcome("json", KeyDoc(TRUE, JList(<<NumEl>>), JNull)),
     Outcome("json", KeyDoc(TRUE, JInt(5), JNull)),
     Outcome("json", KeyDoc(TRUE, Absent, JNull)),
     Outcome("json", KeyDoc(FALSE, Absent, JList(<<GoodEntry>>))),
     Outcome("json", KeyDoc(FALSE, Absent, JStr("hello"))),
     Outcome("json", KeyDoc(FALSE, Absent, JNull))}

Topics == {"Intro to Rust", "Pitch", ""}
\* GenerateRequest.duration, 0 standing for null and for 0
Durations == {0, 5, 10}
\* an upload: its bytes, its declared content type ("" for none), its filename
Upload(audio, content_type, filename) ==
    [audio |-> audio, content_type |-> content_type, filename |-> filename]
\* two recordings, byte by byte; no byte of one occurs in the other
AudioA == <<"a1", "a2">>
AudioB == <<"b1", "b2">>
Uploads ==
    {Upload(AudioA, "audio/wav", "speech.wav"), Upload(AudioA, "", "speech.mp3"),
     Upload(AudioB, "", ""), Upload(AudioB, "", "recording")}

\* speech.wav: whether it exists, and its bytes
File(bytes) == [exists |-> TRUE, bytes |-> bytes]
NoFile == [exists |-> FALSE, bytes |-> <<>>]

\* how "with open(target_path, 'wb') as f: f.write(audio_bytes)" ends: whether
\* open() returned (it truncates the file when it does), whether an exception
\* reached the except clause, and how many bytes were on disk by then
WriteEnd(opened, raised, kept) == [opened |-> opened, raised |-> raised, kept |-> kept]
WriteEnds(audio_bytes) ==
    {WriteEnd(TRUE, FALSE, Len(audio_bytes)), WriteEnd(FALSE, TRUE, 0)}
    \cup {WriteEnd(TRUE, TRUE, k) : k \in 0..Len(audio_bytes)}

\* a save that opens the file with 'ab', keeping what it held
SaveAppending(file, audio_bytes, end) ==
    IF end.opened THEN File(file.bytes \o SubSeq(audio_bytes, 1, end.kept)) ELSE file

\* the save of the upload in api_analyze: the file after it
SaveSpeechWav(file, audio_bytes, end) ==
    IF end.opened THEN File(SubSeq(audio_bytes, 1, end.kept)) ELSE file

\* the audio part of the transcription prompt
audio_part(mime_type, audio_bytes) ==
    [mime_type |-> IF mime_type = "" THEN "audio/webm" ELSE mime_type,
     data |-> audio_bytes]
NoPart == [mime_type |-> "", data |-> <<>>]
Origins ==
    {Header(FALSE, "")}
    \cup {Header(TRUE, o) : o \in AllowedSet \cup {"", "https://evil.example", "*"}}

(***************************************************************************)
(* State                                                                   *)
(***************************************************************************)
VARIABLES
    pc,                 \* "idle", "await_read" (api_analyze at its await), "done"
    req,                \* the request being served
    original_script,    \* api_analyze's local
    transcription_data, \* api_analyze's local
    sent,               \* the last prompt handed to the provider
    payload,            \* how the script-generation or feedback call ended
    report,             \* the FeedbackReport get_feedback_from_gemini returned
    report2,            \* the report of the serialised report fed back in
    resp,               \* the HTTP response
    speech_wav,         \* the content of speech.wav
    document,           \* what the provider wrote: a document or garbage, wrapped
    response_text,      \* response.text, character by character
    data,               \* what the call site made of response_text
    inflight,           \* the api_analyze calls the event loop holds, by slot
    writes              \* history: the saves of speech.wav so far

textvars == <<document, response_text, data>>
concvars == <<inflight, writes>>
vars == <<pc, req, original_script, transcription_data, sent, payload, report,
          report2, resp, speech_wav, document, response_text, data, inflight, writes>>

\* a provider text: the wrapper, whether a JSON document is inside, the
\* document's value, the characters inside the wrapper
Written(wrap, isdoc, val, raw) == [wrap |-> wrap, isdoc |-> isdoc, val |-> val, raw |-> raw]
NoDocument == Written("bare", FALSE, NoValue, <<>>)
NoData == [fallback |-> FALSE, val |-> NoValue]

Request(route, origin, topic, duration, script, audio, content_type, filename) ==
    [route |-> route, origin |-> origin, topic |-> topic, duration |-> duration,
     script |-> script, audio |-> audio, content_type |-> content_type,
     filename |-> filename]
NoReq == Request("", Header(FALSE, ""), "", 0, Outcome("garbage", NoKeyDoc), <<>>, "", "")

Call(site, topic, duration, mime, audio, original, transcribed) ==
    [site |-> site, topic |-> topic, duration |-> duration, mime |-> mime,
     audio |-> audio, original |-> original, transcribed |-> transcribed]
NoCall == Call("", "", 0, "", <<>>, Absent, Absent)

Response(status, kind, acao, fields, body) ==
    [status |-> status, kind |-> kind, acao |-> acao, report |-> fields, body |-> body]
NoResp == Response(0, "", "", NoFields, NoBody)

NoOutcome == Outcome("", NoDoc)

\* the slots of the event loop
Slots == 1..MaxRequests
\* one api_analyze call: where it stands, its upload, its locals, the audio
\* part it handed to the transcription call, its response
Task(at, audio, local_script, part, response) ==
    [pc |-> at, audio |-> audio, original_script |-> local_script,
     audio_part |-> part, resp |-> response]
NoTask == Task("idle", Upload(<<>>, "", ""), Absent, NoPart, NoResp)
\* whether any save opened the file, whether any save completed, the bytes of
\* the upload whose save opened the file last, whether that save completed,
\* the bytes of the upload whose save opened the file before it (none: empty)
Saves(opened, completed, last, last_completed, previous) ==
    [opened |-> opened, completed |-> completed, last |-> last,
     last_completed |-> last_completed, previous |-> previous]
NoSaves == Saves(FALSE, FALSE, <<>>, FALSE, <<>>)
Quiet == inflight = [r \in Slots |-> NoTask] /\ writes = NoSaves

Init ==
    /\ pc = "idle"
    /\ req = NoReq
    /\ original_script = Absent
    /\ transcription_data = NoKeyDoc
    /\ sent = NoCall
    /\ payload = NoOutcome
    /\ report = NoFields
    /\ report2 = NoFields
    /\ resp = NoResp
    /\ speech_wav = NoFile
    /\ document = NoDocument
    /\ response_text = <<>>
    /\ data = NoData
    /\ Quiet

\* payload.duration or 3
DurationOr3(duration) == IF duration = 0 THEN 3 ELSE duration

(***************************************************************************)
(* Handlers                                                                *)
(***************************************************************************)
health ==
    /\ pc = "idle"
    /\ pc' = "done"
    /\ req' = [NoReq EXCEPT !.route = "GET /health"]
    /\ resp' = Response(200, "health", "", NoFields, NoBody)
    /\ UNCHANGED <<original_script, transcription_data, sent, payload, report,
                   report2, speech_wav>>
    /\ UNCHANGED textvars
    /\ UNCHANGED concvars

Preflight(route, origin) ==
    /\ pc = "idle"
    /\ pc' = "done"
    /\ req' = [NoReq EXCEPT !.route = route, !.origin = origin]
    /\ resp' = Response(200, "preflight", AllowOrigin(origin), NoFields, NoBody)
    /\ UNCHANGED <<original_script, transcription_data, sent, payload, report,
                   report2, speech_wav>>
    /\ UNCHANGED textvars
    /\ UNCHANGED concvars

options_generate_script(origin) == Preflight("OPTIONS /generate_script", origin)

options_analyze(origin) == Preflight("OPTIONS /analyze", origin)

api_generate_script(topic, duration, outcome) ==
    /\ pc = "idle"
    /\ pc' = "done"
    /\ req' = [NoReq EXCEPT !.route = "POST /generate_script", !.topic = topic,
                            !.duration = duration]
    /\ payload' = outcome
    /\ sent' = Call("generate", topic, DurationOr3(duration), "", <<>>, Absent, Absent)
    /\ resp' = Response(200, "script", "", NoFields,
                        generate_script_from_topic(topic, DurationOr3(duration), outcome))
    /\ UNCHANGED <<original_script, transcription_data, report, report2, speech_wav>>
    /\ UNCHANGED textvars
    /\ UNCHANGED concvars

\* api_analyze up to "await audio.read()"
api_analyze_begin(script, audio) ==
    /\ pc = "idle"
    /\ pc' = "await_read"
    /\ req' = [NoReq EXCEPT !.route = "POST /analyze", !.script = script,
                            !.audio = audio.audio,
                            !.content_type = audio.content_type,
                            !.filename = audio.filename]
    /\ original_script' = ParseOriginalScript(script)
    /\ UNCHANGED <<transcription_data, sent, payload, report, report2, resp,
                   speech_wav>>
    /\ UNCHANGED textvars
    /\ UNCHANGED concvars

\* api_analyze from the await on: the save of speech.wav (however it ends),
\* the transcription call, the feedback call, the response.  The feedback
\* call is made only when the subscript before it did not raise.
api_analyze_resume(tr_outcome, fb_outcome) ==
    /\ pc = "await_read"
    /\ pc' = "done"
    /\ LET mime_type == MimeType(req.content_type, req.filename)
           td == transcribe_audio_bytes(mime_type, req.audio, tr_outcome)
           fb == get_feedback_from_gemini(original_script, td, fb_outcome)
       IN /\ transcription_data' = td
          /\ IF fb.exc
             THEN /\ fb_outcome = NoOutcome
                  /\ sent' = Call("transcribe", "", 0, mime_type, req.audio, Absent, Absent)
                  /\ payload' = NoOutcome
                  /\ report' = NoFields
                  /\ resp' = Response(500, "error", "", NoFields, NoBody)
             ELSE /\ fb_outcome \in FeedbackOutcomes
                  /\ sent' = Call("feedback", "", 0, "", <<>>, original_script, td.val)
                  /\ payload' = fb_outcome
                  /\ report' = fb.report
                  /\ resp' = Response(200, "report", "", ModelDumpJson(fb.report), NoBody)
    /\ \E end \in WriteEnds(req.audio) :
          speech_wav' = SaveSpeechWav(speech_wav, req.audio, end)
    /\ UNCHANGED <<req, original_script, report2>>
    /\ UNCHANGED textvars
    /\ UNCHANGED concvars

\* the response is sent and the server takes the next request
NextRequest ==
    /\ pc = "done"
    /\ pc' = "idle"
    /\ req' = NoReq
    /\ original_script' = Absent
    /\ transcription_data' = NoKeyDoc
    /\ sent' = NoCall
    /\ payload' = NoOutcome
    /\ report' = NoFields
    /\ resp' = NoResp
    /\ UNCHANGED <<report2, speech_wav>>
    /\ UNCHANGED textvars
    /\ UNCHANGED concvars

Next ==
    \/ health
    \/ \E origin \in Origins : options_generate_script(origin)
    \/ \E origin \in Origins : options_analyze(origin)
    \/ \E topic \in Topics, duration \in Durations, outcome \in ScriptOutcomes :
          api_generate_script(topic, duration, outcome)
    \/ \E script \in ScriptInputs, audio \in Uploads :
          api_analyze_begin(script, audio)
    \/ \E tr_outcome \in TranscriptionOutcomes,
          fb_outcome \in FeedbackOutcomes \cup {NoOutcome} :
          api_analyze_resume(tr_outcome, fb_outcome)
    \/ NextRequest

Spec == Init /\ [][Next]_vars

(***************************************************************************)
(* The coercion on its own: get_feedback_from_gemini applied to every way  *)
(* the feedback call may end, then to its own serialised report            *)
(* (feedback.model_dump_json(), as api_analyze returns it).                *)
(***************************************************************************)
InitCoerce ==
    /\ pc = "payload"
    /\ payload \in Payloads
    /\ req = NoReq
    /\ original_script = JList(<<>>)
    /\ transcription_data = DefaultTranscription
    /\ sent = NoCall
    /\ report = NoFields
    /\ report2 = NoFields
    /\ resp = NoResp
    /\ speech_wav = NoFile
    /\ document = NoDocument
    /\ response_text = <<>>
    /\ data = NoData
    /\ Quiet

CoerceStep ==
    /\ pc = "payload"
    /\ pc' = "coerced"
    /\ report' = get_feedback_from_gemini(original_script, transcription_data,
                                          payload).report
    /\ UNCHANGED <<req, original_script, transcription_data, sent, payload, report2,
                   resp, speech_wav>>
    /\ UNCHANGED textvars
    /\ UNCHANGED concvars

RefeedStep ==
    /\ pc = "coerced"
    /\ pc' = "refed"
    /\ report2' = get_feedback_from_gemini(
                      original_script, transcription_data,
                      Outcome("json", ObjDoc(ModelDumpJson(report)))).report
    /\ UNCHANGED <<req, original_script, transcription_data, sent, payload, report,
                   resp, speech_wav>>
    /\ UNCHANGED textvars
    /\ UNCHANGED concvars

NextCoerce == CoerceStep \/ RefeedStep

SpecCoerce == InitCoerce /\ [][NextCoerce]_vars

(***************************************************************************)
(* The normaliser on its own: the transcription call site applied to every *)
(* text the provider may write.                                            *)
(***************************************************************************)
ProviderTexts ==
    {Written(w, TRUE, d, JsonDumps(d)) : w \in Wrappers, d \in Documents}
    \cup {Written(w, FALSE, NoValue, g) : w \in Wrappers, g \in Garbage}

InitNorm ==
    /\ pc = "text"
    /\ document \in ProviderTexts
    /\ response_text = Wrap(document.wrap, document.raw)
    /\ data = NoData
    /\ req = NoReq
    /\ original_script = Absent
    /\ transcription_data = NoKeyDoc
    /\ sent = NoCall
    /\ payload = NoOutcome
    /\ report = NoFields
    /\ report2 = NoFields
    /\ resp = NoResp
    /\ speech_wav = NoFile
    /\ Quiet

NormalizeStep ==
    /\ pc = "text"
    /\ pc' = "normalized"
    /\ data' = NormalizeOrFallback(response_text)
    /\ UNCHANGED <<req, original_script, transcription_data, sent, payload, report,
                   report2, resp, speech_wav, document, response_text>>
    /\ UNCHANGED concvars

NextNorm == NormalizeStep

SpecNorm == InitNorm /\ [][NextNorm]_vars

(***************************************************************************)
(* POST /analyze under concurrency: one process, one event loop.           *)
(* api_analyze is a coroutine whose only suspension point is               *)
(* "await audio.read()"; what follows it (the save of speech.wav, both     *)
(* provider calls) runs on the loop without yielding, so the calls in      *)
(* flight interleave at that await and nowhere else.                       *)
(***************************************************************************)
ConcScripts ==
    {Outcome("garbage", NoKeyDoc),
     Outcome("json", KeyDoc(FALSE, Absent, JList(<<GoodEntry>>)))}
ConcUploads == {Upload(AudioA, "audio/wav", "speech.wav"), Upload(AudioB, "", "")}
ConcTranscriptions ==
    {Outcome("raise", NoKeyDoc),
     Outcome("json", KeyDoc(TRUE, JList(<<GoodEntry>>), JNull)),
     Outcome("json", KeyDoc(TRUE, Absent, JNull))}
ConcFeedbacks == {Outcome("json", ObjDoc(BasePayload))}

InitConc ==
    /\ pc = "idle"
    /\ req = NoReq
    /\ original_script = Absent
    /\ transcription_data = NoKeyDoc
    /\ sent = NoCall
    /\ payload = NoOutcome
    /\ report = NoFields
    /\ report2 = NoFields
    /\ resp = NoResp
    /\ speech_wav = NoFile
    /\ document = NoDocument
    /\ response_text = <<>>
    /\ data = NoData
    /\ Quiet

seqvars == <<pc, req, original_script, transcription_data, sent, payload, report,
             report2, resp, document, response_text, data>>

\* a call of api_analyze runs up to "await audio.read()" and is suspended
analyze_begin(r, script, audio) ==
    /\ inflight[r].pc = "idle"
    /\ inflight' = [inflight EXCEPT
                       ![r] = Task("await_read", audio, ParseOriginalScript(script),
                                   NoPart, NoResp)]
    /\ UNCHANGED <<speech_wav, writes>>
    /\ UNCHANGED seqvars

\* the loop resumes a suspended call, which runs to its return; of its locals
\* the upload, the audio part and the response are kept for the record
analyze_resume(r, tr_outcome, fb_outcome) ==
    /\ inflight[r].pc = "await_read"
    /\ LET task == inflight[r]
           audio_bytes == task.audio.audio
           mime_type == MimeType(task.audio.content_type, task.audio.filename)
           td == transcribe_audio_bytes(mime_type, audio_bytes, tr_outcome)
           fb == get_feedback_from_gemini(task.original_script, td, fb_outcome)
           response ==
               IF fb.exc THEN Response(500, "error", "", NoFields, NoBody)
               ELSE Response(200, "report", "", ModelDumpJson(fb.report), NoBody)
       IN /\ fb.exc => fb_outcome = NoOutcome
          /\ ~fb.exc => fb_outcome \in ConcFeedbacks
          /\ inflight' = [inflight EXCEPT
                             ![r] = Task("done", task.audio, Absent,
                                         audio_part(mime_type, audio_bytes),
                                         response)]
          /\ \E end \in WriteEnds(audio_bytes) :
                /\ speech_wav' = SaveSpeechWav(speech_wav, audio_bytes, end)
                /\ writes' = IF end.opened
                              THEN Saves(TRUE, writes.completed \/ ~end.raised,
                                         audio_bytes, ~end.raised, writes.last)
                              ELSE writes
    /\ UNCHANGED seqvars

\* the response is sent and the slot takes the next call
analyze_return(r) ==
    /\ inflight[r].pc = "done"
    /\ inflight' = [inflight EXCEPT ![r] = NoTask]
    /\ UNCHANGED <<speech_wav, writes>>
    /\ UNCHANGED seqvars

NextConc ==
    \/ \E r \in Slots, script \in ConcScripts, audio \in ConcUploads :
          analyze_begin(r, script, audio)
    \/ \E r \in Slots, tr_outcome \in ConcTranscriptions,
          fb_outcome \in ConcFeedbacks \cup {NoOutcome} :
          analyze_resume(r, tr_outcome, fb_outcome)
    \/ \E r \in Slots : analyze_return(r)

SpecConc == InitConc /\ [][NextConc]_vars

(***************************************************************************)
(* Properties of the handlers                                              *)
(***************************************************************************)
AnalyzeDone == pc = "done" /\ req.route = "POST /analyze"
GenerateDone == pc = "done" /\ req.route = "POST /generate_script"
PreflightDone == pc = "done" /\ resp.kind = "preflight"

Populated(fields) == \A f \in FeedbackReport : fields[f].k # "absent"

\* C1: POST /analyze never hard-fails because of the provider: whatever the
\* transcription call and the feedback call did, the handler answers 200
\* with a FeedbackReport that has all its fields.
C1_AnalyzeNeverHardFails ==
    AnalyzeDone => resp.status = 200 /\ resp.kind = "report" /\ Populated(resp.report)

\* C5: when the provider call fails or its text does not parse,
\* POST /generate_script with topic T answers the default script titled
\* "Presentation on T".
C5_FallbackTitledAfterTopic ==
    (GenerateDone /\ payload.kind \in {"raise", "garbage"})
        => resp.body = ScriptBody(PresentationOn(req.topic), DefaultScript)

\* C5, amended: when the provider call fails or its text does not parse,
\* POST /generate_script answers 200 with the default script under the
\* fixed title "Default Topic", whatever the topic.
C5_FallbackDefaultTopic ==
    (GenerateDone /\ payload.kind \in {"raise", "garbage"})
        => resp.status = 200 /\ resp.body = ScriptBody(<<"Default Topic">>, DefaultScript)

C5_Witness ==
    /\ GenerateDone
    /\ payload.kind = "raise"
    /\ req.topic = "Intro to Rust"
    /\ req.duration = 5
    /\ resp.body.title = <<"Default Topic">>
    /\ Len(resp.body.script.e) = 2

IsEntryList(v) == v.k = "list" /\ \A i \in 1..Len(v.e) : v.e[i].k = "entry"

\* C6: every body of POST /generate_script, whatever the provider did, has
\* a string title and a "script" list of {timestamp, line} entries.
C6_ScriptBodyShape ==
    GenerateDone
        => resp.status = 200 /\ Len(resp.body.title) > 0 /\ IsEntryList(resp.body.script)

\* the shapes of original_script_json the handler expects: a list of
\* entries, or an object whose "script" is one
ExpectedScript(parsed) ==
    /\ parsed.kind = "json"
    /\ IF parsed.doc.isobj THEN IsEntryList(parsed.doc.val) ELSE IsEntryList(parsed.doc.v)

\* C8: in POST /analyze the original script is the empty list whenever
\* original_script_json does not parse or parses to an unexpected shape,
\* feedback generation is handed that empty list, and the request is still
\* answered with a fully populated report.
C8_BadScriptIsEmpty ==
    (req.route = "POST /analyze" /\ ~ExpectedScript(req.script))
        => /\ original_script = JList(<<>>)
           /\ pc = "done" => /\ sent.site = "feedback"
                             /\ sent.original = JList(<<>>)
                             /\ resp.status = 200
                             /\ Populated(resp.report)

C10_ReportRanges ==
    (AnalyzeDone /\ resp.kind = "report")
        => /\ \A f \in ScoreFields :
                 report[f].k = "float" => (0 <= report[f].n /\ report[f].n <= 20)
           /\ \A f \in CountFields : report[f].k = "int" => report[f].n >= 0

(***************************************************************************)
(* Properties of the coercion                                              *)
(***************************************************************************)
Coerced == pc \in {"coerced", "refed"}
ObjectPayload == payload.kind = "json" /\ payload.doc.isobj

\* C2: whatever the feedback call returned, the report of the coercion
\* step has every score a finite float, every count an integer and both
\* list fields a list.
C2_ReportTyped ==
    Coerced => /\ \A f \in ScoreFields : report[f].k = "float"
               /\ \A f \in CountFields : report[f].k = "int"
               /\ \A f \in ListFields : report[f].k = "list"

\* what the claims call a well-formed value of a field, and the field's default
WellFormed(f, v) ==
    CASE f \in ScoreFields \cup CountFields -> v.k \in {"int", "float"}
      [] f \in TextFields -> v.k = "str"
      [] f = "repetitive_words_list" ->
            v.k = "list" /\ \A i \in 1..Len(v.e) : v.e[i].k = "str"
      [] OTHER -> v.k = "list" /\ \A i \in 1..Len(v.e) : v.e[i].k = "tip"

FieldDefault(f) ==
    CASE f \in ScoreFields -> JFloat(0)
      [] f \in CountFields -> JInt(0)
      [] f \in TextFields -> JStr("")
      [] OTHER -> JList(<<>>)

\* the number a value stands for, in halves: numbers, booleans, and the
\* strings "5" and "7.5"
Halves(v) ==
    CASE v.k \in {"int", "bool"} -> 2 * v.n
      [] v.k = "float" -> v.n
      [] v.s = "5" -> 10
      [] OTHER -> 15

\* the value of a well-formed field as the report types it
CastOf(f, v) ==
    CASE f \in ScoreFields -> JFloat(Halves(v))
      [] f \in CountFields ->
            JInt(IF Halves(v) >= 0 THEN Halves(v) \div 2 ELSE -((-Halves(v)) \div 2))
      [] f = "detailed_tips" ->
            JList([i \in 1..Len(v.e) |-> [v.e[i] EXCEPT !.x = FALSE]])
      [] OTHER -> v

Falsy(v) ==
    \/ v.k \in {"absent", "null"}
    \/ v.k \in {"bool", "int", "float", "obj"} /\ v.n = 0
    \/ v.k = "str" /\ v.s = ""
    \/ v.k = "list" /\ v.e = <<>>

\* the values whose cast or validation fails: a truthy score float() does
\* not read, a truthy count int() does not read, a truthy overall_feedback
\* that is no string, a list with an element of the wrong type
Rejected(f, v) ==
    CASE f \in ScoreFields ->
            /\ ~Falsy(v)
            /\ v.k \notin {"int", "float", "bool", "nonfinite"}
            /\ ~(v.k = "str" /\ v.s \in {"5", "7.5", "nan"})
      [] f \in CountFields ->
            /\ ~Falsy(v)
            /\ v.k \notin {"int", "float", "bool"}
            /\ ~(v.k = "str" /\ v.s = "5")
      [] f \in TextFields -> ~Falsy(v) /\ v.k # "str"
      [] f = "repetitive_words_list" ->
            v.k = "list" /\ \E i \in 1..Len(v.e) : v.e[i].k # "str"
      [] OTHER -> v.k = "list" /\ \E i \in 1..Len(v.e) : v.e[i].k # "tip"

\* the field of the report that one value of the payload gives
FieldOf(f, v) ==
    CASE Falsy(v) -> FieldDefault(f)
      [] f \in ListFields /\ v.k # "list" -> FieldDefault(f)
      [] f \in ScoreFields /\ (v.k = "nonfinite" \/ v.s = "nan") ->
            IF v.k = "nonfinite" THEN v ELSE NaN
      [] OTHER -> CastOf(f, v)

C4_Idempotent == pc = "refed" => report2 = report

(***************************************************************************)
(* Properties of the normaliser                                            *)
(***************************************************************************)
\* C7: a JSON document wrapped in code-fence markers is parsed to exactly
\* the value the document denotes, no string of it altered; a text that
\* does not parse gives the call site's fallback and nothing is raised.
C7_FencedJsonVerbatim ==
    pc = "normalized"
        => /\ (document.isdoc /\ document.wrap # "bare")
                 => data = [fallback |-> FALSE, val |-> document.val]
           /\ ~document.isdoc => data.fallback
(***************************************************************************)
(* Properties of speech.wav under concurrency                              *)
(***************************************************************************)
IsPrefix(p, q) == Len(p) <= Len(q) /\ p = SubSeq(q, 1, Len(p))

\* every call that has run handed the transcription call its own upload
OwnBytes ==
    \A r \in Slots :
       inflight[r].pc = "done" => inflight[r].audio_part.data = inflight[r].audio.audio

\* C11 as stated: between handler steps, once a save has completed,
\* speech.wav holds exactly the whole upload of the call whose save ran last,
\* and every transcription was computed from the call's own bytes.
C11_LastSaveWhole ==
    /\ writes.completed => speech_wav = File(writes.last)
    /\ OwnBytes

\* C11, amended: between handler steps speech.wav holds bytes of one upload
\* only, the one whose save opened the file last: all of its bytes when that
\* save completed, a prefix of them when it raised; before any save opened
\* the file there is no file; and every transcription was computed from the
\* call's own bytes.
C11_LastSavePrefix ==
    /\ ~writes.opened => speech_wav = NoFile
    /\ writes.opened => /\ speech_wav.exists
                        /\ IsPrefix(speech_wav.bytes, writes.last)
                        /\ writes.last_completed => speech_wav.bytes = writes.last
    /\ OwnBytes

\* two calls in flight together with different uploads have both run; the save
\* of one followed the save of the other and completed, and the file is its
\* upload, whole
C11_Witness ==
    \E r \in Slots, o \in Slots :
       /\ inflight[r].pc = "done" /\ inflight[o].pc = "done"
       /\ inflight[r].audio.audio # inflight[o].audio.audio
       /\ writes.last = inflight[r].audio.audio
       /\ writes.previous = inflight[o].audio.audio
       /\ writes.last_completed
       /\ speech_wav = File(inflight[r].audio.audio)
       /\ inflight[o].audio_part.data = inflight[o].audio.audio

====
